---- MODULE Spec2Model ----
(***************************************************************************)
(* State-machine model of the widget bridge of mcp-wip:                    *)
(*   - the widget registry and the WidgetRenderer component               *)
(*                                     (src/sdks/react/registry.ts)         *)
(*   - the chat turn orchestrator     (src/example/chat/app/routes/home.tsx)*)
(*                                                                         *)
(* JavaScript strings are modelled as tuples of chunks (a chunk is a run   *)
(* of characters; the chunk " " is white space), so that the empty string  *)
(* is <<>> and String.prototype.trim is computed.  A string that is the    *)
(* JSON text of a value is modelled by the value it decodes to.            *)
(***************************************************************************)
EXTENDS Integers, Sequences, FiniteSets, TLC

VARIABLES
    registry,       \* registry.ts:80   const registry: Record<WidgetId, WidgetComponent>
    messages,       \* home.tsx:21      useState<ChatMessage[]>([])
    input,          \* home.tsx:22      useState('')
    loading,        \* home.tsx:23      useState(false)
    sessionId,      \* home.tsx:24      useState('default')
    openWidgetUri,  \* home.tsx:25      useState<string | null>(null)
    startSession,   \* home.tsx:36-51   the start-session effect: "pending" | "settled"
    turns,          \* the sendMessage invocations suspended at an await (home.tsx:111,126)
    fullscreenWidgets, \* home.tsx:28   useState<Record<number, boolean>>({})
    renderer,       \* registry.ts:128-163  one WidgetRenderer instance: its props, its
                    \* params state and what its last render returned
    seen,           \* observation only: what the callers of the registry and of the
                    \* renderer did so far
    op,             \* observation only: the handler, the early return, the outcome of
                    \* getWidgetContext or the end of a turn that the last step took,
                    \* NoOp otherwise
    reply,          \* observation only: the array the last step applied and the length
                    \* of the log before it, NoReply after any other step
    calendar,       \* NewCalendar2.tsx:58-60  the module-level lastSelected* and the
                    \* mounted InteractiveCalendar instances, in the order of the log
    scanner,        \* QRScannerWidget: scanState, the refs of one instance, and the
                    \* media streams of the page whose tracks are live
    prompts,        \* the overlay 'image-carousel-init-prompt' of document.body and the
                    \* widget instances whose initWidget was called
    carousel        \* ImageCarouselWidget: the state hooks and refs of one instance

\* the state of the widgets of the chat example
widgetVars == <<calendar, scanner, prompts, carousel>>

\* the state of the orchestrator, the registry and the renderer
homeVars == <<registry, messages, input, loading, sessionId, openWidgetUri,
              startSession, turns, fullscreenWidgets, renderer, seen>>

vars == <<registry, messages, input, loading, sessionId, openWidgetUri,
          startSession, turns, fullscreenWidgets, renderer, seen, op, reply,
          calendar, scanner, prompts, carousel>>

-----------------------------------------------------------------------------
(* Bounds of the model *)

\* longest message log explored
MaxLog == 3
\* longest backend reply (entries of the array returned by /chat)
MaxReply == 2

-----------------------------------------------------------------------------
(* JavaScript values *)

\* the value of op after a step that is neither an early return nor the end of a turn
NoOp == "-"

\* the value of reply after a step that applied no reply
NoReply == [applied |-> FALSE, data |-> <<>>, base |-> 0]

Null == "null"

\* the empty string ''
EmptyString == <<>>

RECURSIVE TrimStart(_)
TrimStart(s) ==
    IF s # <<>> /\ Head(s) = " " THEN TrimStart(Tail(s)) ELSE s

RECURSIVE TrimEnd(_)
TrimEnd(s) ==
    IF s # <<>> /\ s[Len(s)] = " " THEN TrimEnd(SubSeq(s, 1, Len(s) - 1)) ELSE s

\* String.prototype.trim
Trim(s) == TrimEnd(TrimStart(s))

\* an element {name, value} of a parameters array, and the element null
Pair(name, value) == [isNull |-> FALSE, name |-> name, value |-> value]
NullPair == [isNull |-> TRUE, name |-> "", value |-> 0]

NoParameters == [defined |-> FALSE, list |-> <<>>]
ParameterList(l) == [defined |-> TRUE, list |-> l]

\* a plain string
Str(chunks) ==
    [kind |-> "string", text |-> chunks, uri |-> "", parameters |-> NoParameters,
     tool |-> "", pretty |-> FALSE]

\* the string that is the JSON text of the object {uri, parameters, text}
Json(uri, parameters, text) ==
    [kind |-> "json", text |-> text, uri |-> uri, parameters |-> parameters,
     tool |-> "", pretty |-> FALSE]

\* the string "null", the JSON text of null
JsonNull ==
    [kind |-> "jsonnull", text |-> <<"null">>, uri |-> "", parameters |-> NoParameters,
     tool |-> "", pretty |-> FALSE]

\* the element <WidgetRenderer uri={uri} parameters={parameters} />
WidgetRendererElement(uri, parameters) ==
    [kind |-> "WidgetRenderer", text |-> <<>>, uri |-> uri, parameters |-> parameters,
     tool |-> "", pretty |-> FALSE]

\* a string s is falsy iff it is ''
Falsy(s) == s.kind = "string" /\ s.text = EmptyString

\* JSON.parse throws a SyntaxError on a string that is no JSON text
JSONParseThrows(s) == s.kind = "string"

-----------------------------------------------------------------------------
(* Registry (src/sdks/react/registry.ts) *)

\* the widgets registered at start-up by the chat example
widgets ==
    [u \in {"wip://calendar", "wip://qr-code-scanner",
            "wip://stock-level-inspector", "wip://image-carousel"} |->
        [defined |-> TRUE,
         widgetName |-> CASE u = "wip://calendar" -> "Calendar"
                          [] u = "wip://qr-code-scanner" -> "QR Scanner"
                          [] u = "wip://stock-level-inspector" -> "Stock Visualizer"
                          [] OTHER -> "Image Carousel",
         description |-> CASE u = "wip://calendar" ->
                                  "Visualize your calendar and add appointments"
                           [] u = "wip://qr-code-scanner" -> "Scan a product by QR code"
                           [] u = "wip://stock-level-inspector" ->
                                  "Visualize the availability of a given product into the warehouse"
                           [] OTHER -> "A carousel widget to display a list of images.",
         visualization |-> IF u = "wip://qr-code-scanner" THEN "small" ELSE "both",
         initWidget |-> u # "wip://qr-code-scanner",
         getIcon |-> TRUE,
         component |-> TRUE]]

\* a component that declares nothing but the visualization
BareWidget ==
    [defined |-> TRUE, widgetName |-> "", description |-> "",
     visualization |-> "small", initWidget |-> FALSE, getIcon |-> FALSE,
     component |-> TRUE]

\* what a lookup of a missing key yields
UndefinedWidget ==
    [defined |-> FALSE, widgetName |-> "", description |-> "",
     visualization |-> "", initWidget |-> FALSE, getIcon |-> FALSE,
     component |-> FALSE]

\* registry is an object literal {}: a key it does not own is looked up in
\* Object.prototype.  The inherited member modelled is "constructor", the function
\* Object: it is no widget (no widgetName, no description, no visualization, no
\* initWidget, no getIcon) and
\* what it returns when called as a component is no React node.
ObjectPrototype ==
    [k \in {"constructor"} |->
        [defined |-> TRUE, widgetName |-> "", description |-> "",
         visualization |-> "", initWidget |-> FALSE, getIcon |-> FALSE,
         component |-> FALSE]]

\* const registry = {}: no own key
EmptyRegistry == [u \in {} |-> UndefinedWidget]

\* mutant: the call replaces the table by its argument
registerWidgets_Replaces(reg, entries) == entries

\* mutant: a key the table holds keeps its component
registerWidgets_KeepsExisting(reg, entries) ==
    [u \in DOMAIN reg \cup DOMAIN entries |->
        IF u \in DOMAIN reg THEN reg[u] ELSE entries[u]]

\* registerWidgets: Object.assign(registry, entries)
registerWidgets(reg, entries) ==
    [u \in DOMAIN reg \cup DOMAIN entries |->
        IF u \in DOMAIN entries THEN entries[u] ELSE reg[u]]

\* the property read reg[id]
Lookup(reg, id) ==
    IF id \in DOMAIN reg THEN reg[id]
    ELSE IF id \in DOMAIN ObjectPrototype THEN ObjectPrototype[id]
    ELSE UndefinedWidget

\* getWidget: registry[id]
getWidget(id) == Lookup(registry, id)

\* what the callers did so far, before any call
NothingSeen ==
    [keys |-> {}, entries |-> EmptyRegistry, before |-> EmptyRegistry,
     id |-> "", found |-> UndefinedWidget,
     inits |-> 0, runs |-> 0, renders |-> 0,
     menu |-> [u \in {} |-> 0], raised |-> {}, requests |-> {}]

\* the mappings the callers of registerWidgets pass: the widgets of the chat
\* example, one of them alone, another component under an identifier of theirs,
\* a component that declares no name, description or icon, and a component under
\* a key that is no URI
EntryMaps ==
    {widgets,
     [u \in {"wip://calendar"} |-> widgets["wip://calendar"]],
     [u \in {"wip://calendar"} |-> widgets["wip://qr-code-scanner"]],
     [u \in {"wip://qr-code-scanner"} |-> widgets["wip://image-carousel"]],
     [u \in {"wip://b", "wip://image-carousel"} |-> widgets["wip://qr-code-scanner"]],
     [u \in {"wip://b"} |-> widgets["wip://calendar"]],
     [u \in {"wip://image-carousel"} |-> BareWidget],
     [u \in {"constructor"} |-> widgets["wip://calendar"]]}

\* the identifiers looked up: URIs, registered or not, and strings that are no URI
Ids == {"wip://calendar", "wip://qr-code-scanner", "wip://stock-level-inspector",
        "wip://image-carousel", "wip://b", "wip://unknown", "", "calendar",
        "constructor"}

\* a call registerWidgets(entries)
RegisterWidgets(entries) ==
    /\ entries \in EntryMaps
    /\ registry' = registerWidgets(registry, entries)
    /\ seen' = [seen EXCEPT !.keys = @ \cup DOMAIN entries,
                            !.entries = entries,
                            !.before = registry]
    /\ op' = "registerWidgets"
    /\ reply' = NoReply
    /\ UNCHANGED <<fullscreenWidgets, renderer, widgetVars, messages, input, loading, sessionId,
                   openWidgetUri, startSession, turns>>

\* a call getWidget(id)
GetWidget(id) ==
    /\ id \in Ids
    /\ seen' = [seen EXCEPT !.id = id, !.found = getWidget(id)]
    /\ op' = "getWidget"
    /\ reply' = NoReply
    /\ UNCHANGED <<fullscreenWidgets, renderer, registry, widgetVars, messages, input, loading,
                   sessionId, openWidgetUri, startSession, turns>>

-----------------------------------------------------------------------------
(* WidgetRenderer (src/sdks/react/registry.ts:128-163) *)

\* most renders of one run of the renderer explored
MaxRenders == 4

\* a mapping {name: value, ...} is the set of its <<name, value>> entries;
\* the value undefined is no mapping
Mapping(m) == [defined |-> TRUE, map |-> m]
UndefinedParams == [defined |-> FALSE, map |-> {}]

\* mutant: only the last pair of the list is kept
FromEntries_LastPairOnly(l) ==
    IF l = <<>> THEN {} ELSE {<<l[Len(l)].name, l[Len(l)].value>>}

\* mutant: the first pair of a name is kept
FromEntries_FirstWins(l) ==
    LET firsts == {i \in DOMAIN l : \A j \in 1..(i - 1) : l[j].name # l[i].name}
    IN  {<<l[i].name, l[i].value>> : i \in firsts}

\* Object.fromEntries(pairs): the properties are defined in the order of the
\* list, a later one replaces an earlier one of the same name
RECURSIVE FromEntries(_)
FromEntries(l) ==
    IF l = <<>> THEN {}
    ELSE LET p == l[Len(l)]
             m == FromEntries(SubSeq(l, 1, Len(l) - 1))
         IN  {e \in m : e[1] # p.name} \cup {<<p.name, p.value>>}

\* parameters.map(p => [p.name, p.value]) raises a TypeError on an element null
MapThrows(parameters) ==
    parameters.defined /\ \E i \in DOMAIN parameters.list : parameters.list[i].isNull

\* const paramObj = Array.isArray(parameters) ? Object.fromEntries(...) : undefined
ParamObj(parameters) ==
    IF parameters.defined THEN Mapping(FromEntries(parameters.list))
    ELSE UndefinedParams

\* the identifiers a caller renders
RendererUris == {"wip://calendar", "wip://qr-code-scanner", "wip://unknown",
                 "constructor"}

\* the parameters props a caller passes: none, an empty list, lists of pairs with
\* and without a repeated name, in more than one order, a list holding null
ParameterValues ==
    {NoParameters,
     ParameterList(<<>>),
     ParameterList(<<Pair("x", 1)>>),
     ParameterList(<<Pair("x", 2)>>),
     ParameterList(<<Pair("x", 1), Pair("y", 2)>>),
     ParameterList(<<Pair("y", 2), Pair("x", 1)>>),
     ParameterList(<<Pair("x", 1), Pair("y", 2), Pair("x", 2)>>),
     ParameterList(<<NullPair>>)}

\* the mappings a widget passes to setParams
SetterValues == {Mapping({}), Mapping({<<"x", 3>>})}

\* what a render returns
Raised(uri) == [kind |-> "raised", uri |-> uri, parameters |-> UndefinedParams]
UnknownWidget(uri) == [kind |-> "unknown", uri |-> uri, parameters |-> UndefinedParams]
WidgetElement(uri, params) == [kind |-> "widget", uri |-> uri, parameters |-> params]

\* the renderer before it is mounted and after it is unmounted
Unmounted ==
    [mounted |-> FALSE, uri |-> "", parameters |-> NoParameters,
     params |-> UndefinedParams, setParams |-> FALSE, initArg |-> UndefinedParams,
     expected |-> UndefinedParams, output |-> Raised("")]

\* one evaluation of the body of WidgetRenderer with the state params: paramObj is
\* computed first (and may raise), then the fallback for a missing widget, then
\* <Widget parameters={params} /> (which raises if Widget returns no React node)
Render(uri, parameters, params) ==
    IF MapThrows(parameters) THEN Raised(uri)
    ELSE IF ~getWidget(uri).defined THEN UnknownWidget(uri)
    ELSE IF ~getWidget(uri).component THEN Raised(uri)
    ELSE WidgetElement(uri, params)

\* mutant: the effect has no dependency list
EffectRuns_EveryRender(wasMounted, prevUri, uri) == TRUE

\* useEffect(..., [uri]): the effect runs after the first render and after a
\* render with another uri
EffectRuns(wasMounted, prevUri, uri) == ~wasMounted \/ prevUri # uri

\* Widget?.initWidget?.(params, setParams) is a call
InitInvoked(wasMounted, prevUri, uri) ==
    EffectRuns(wasMounted, prevUri, uri) /\ getWidget(uri).initWidget

\* const [params, setParams] = useState(paramObj): the argument is the state of
\* the first render only
ParamsState(r, parameters) == IF r.mounted THEN r.params ELSE ParamObj(parameters)

\* a render of the renderer r with the props uri and parameters, and the effect
\* that follows it; expected is the mapping a caller who supplied these props
\* counts on
Rendered(r, uri, parameters, expected) ==
    LET params == ParamsState(r, parameters)
        out == Render(uri, parameters, params)
        init == InitInvoked(r.mounted, r.uri, uri)
    IN  IF out.kind = "raised"
        THEN [Unmounted EXCEPT !.output = out]
        ELSE [mounted |-> TRUE, uri |-> uri, parameters |-> parameters,
              params |-> params,
              setParams |-> r.setParams \/ init,
              initArg |-> IF init THEN params ELSE r.initArg,
              expected |-> expected,
              output |-> out]

\* what the observation records of a render: the calls of initWidget, and the
\* runs of renders with one identifier whose widget has an initWidget
SeenAfterRender(r, r2, uri) ==
    [seen EXCEPT !.renders = @ + 1,
                 !.inits = IF r2.mounted /\ InitInvoked(r.mounted, r.uri, uri)
                           THEN @ + 1 ELSE @,
                 !.runs = IF r2.mounted /\ (~r.mounted \/ r.uri # uri)
                             /\ getWidget(uri).initWidget
                          THEN @ + 1 ELSE @]

\* the caller renders <WidgetRenderer uri parameters /> where there was none
Mount(uri, parameters) ==
    /\ uri \in RendererUris /\ parameters \in ParameterValues
    /\ ~renderer.mounted
    /\ seen.renders < MaxRenders
    /\ LET r2 == Rendered(renderer, uri, parameters, ParamObj(parameters))
       IN  /\ renderer' = r2
           /\ seen' = SeenAfterRender(renderer, r2, uri)
    /\ op' = "mount"
    /\ reply' = NoReply
    /\ UNCHANGED <<fullscreenWidgets, registry, widgetVars, messages, input, loading, sessionId,
                   openWidgetUri, startSession, turns>>

\* the caller renders the mounted renderer again, with the same or with other props
Rerender(uri, parameters) ==
    /\ uri \in RendererUris /\ parameters \in ParameterValues
    /\ renderer.mounted
    /\ seen.renders < MaxRenders
    /\ LET expected == IF uri # renderer.uri \/ parameters # renderer.parameters
                       THEN ParamObj(parameters)
                       ELSE renderer.expected
           r2 == Rendered(renderer, uri, parameters, expected)
       IN  /\ renderer' = r2
           /\ seen' = SeenAfterRender(renderer, r2, uri)
    /\ op' = "rerender"
    /\ reply' = NoReply
    /\ UNCHANGED <<fullscreenWidgets, registry, widgetVars, messages, input, loading, sessionId,
                   openWidgetUri, startSession, turns>>

\* the widget calls the setParams it was handed by initWidget: the state is set
\* and the renderer renders again with the props it has
SetParams(newParams) ==
    /\ newParams \in SetterValues
    /\ renderer.mounted /\ renderer.setParams
    /\ seen.renders < MaxRenders
    /\ LET r2 == Rendered([renderer EXCEPT !.params = newParams],
                          renderer.uri, renderer.parameters, newParams)
       IN  /\ renderer' = r2
           /\ seen' = SeenAfterRender(renderer, r2, renderer.uri)
    /\ op' = "setParams"
    /\ reply' = NoReply
    /\ UNCHANGED <<fullscreenWidgets, registry, widgetVars, messages, input, loading, sessionId,
                   openWidgetUri, startSession, turns>>

\* the caller stops rendering the renderer
Unmount ==
    /\ renderer.mounted
    /\ renderer' = Unmounted
    /\ op' = "unmount"
    /\ reply' = NoReply
    /\ UNCHANGED <<seen, fullscreenWidgets, registry, widgetVars, messages, input, loading,
                   sessionId, openWidgetUri, startSession, turns>>

-----------------------------------------------------------------------------
(* WidgetMenu, the picker (widgets/WidgetMenu) *)

\* the span with the GridIcon shown for a widget without an icon
PlaceholderGlyph == "placeholder"

\* the identifiers the menu lists: Object.keys(widgets) of register.ts, without
\* those getWidget does not resolve (return null)
Listed == {uri \in DOMAIN widgets : getWidget(uri).defined}

\* the button of one widget: widgetName || uri, description || '', and the icon
\* getIcon() returns, the placeholder if there is no getIcon or if it raises
MenuEntry(uri, raises) ==
    LET widgetComp == getWidget(uri) IN
    [name |-> IF widgetComp.widgetName # "" THEN widgetComp.widgetName ELSE uri,
     description |-> widgetComp.description,
     icon |-> IF widgetComp.getIcon /\ uri \notin raises
              THEN "icon" ELSE PlaceholderGlyph]

\* the open menu renders its list; raises: the widgets whose getIcon raises
RenderMenu(raises) ==
    /\ raises \subseteq DOMAIN widgets
    /\ seen' = [seen EXCEPT !.menu = [uri \in Listed |-> MenuEntry(uri, raises)],
                            !.raised = raises]
    /\ op' = "widgetMenu"
    /\ reply' = NoReply
    /\ UNCHANGED <<fullscreenWidgets, renderer, registry, widgetVars, messages, input, loading,
                   sessionId, openWidgetUri, startSession, turns>>

-----------------------------------------------------------------------------
(* Message log (src/example/chat/app/routes/home.tsx) *)

ChatMessage(role, content) == [role |-> role, content |-> content]

\* the text of the error message of a failed turn
ErrorText == <<"Failed to get response. Please try again.">>

\* the identifiers the picker and the agent draw from; the last one is not registered
Uris == {"wip://calendar", "wip://qr-code-scanner", "wip://unknown"}

\* index of the last widget message of log, 0 if there is none
\* ([...prev].reverse().findIndex(m => m.role === 'widget'))
LastWidgetIndex(log) ==
    LET W == {i \in 1..Len(log) : log[i].role = "widget"}
    IN  IF W = {} THEN 0 ELSE CHOOSE i \in W : \A j \in W : j <= i

\* mutant: the messages after the removed one are dropped with it
RemoveAt_AndAfter(log, i) == SubSeq(log, 1, i - 1)

\* prev.slice(0, actualIndex).concat(prev.slice(actualIndex + 1))
RemoveAt(log, i) == SubSeq(log, 1, i - 1) \o SubSeq(log, i + 1, Len(log))

\* mutant: the removal always clears the pointer
PointerAfterRemove_Cleared(newMessages) == Null

\* the pointer handleRemoveWidget sets after the removal: the uri prop of the last
\* widget message of newMessages, null if there is none
PointerAfterRemove(newMessages) ==
    LET k == LastWidgetIndex(newMessages)
    IN  IF k # 0 /\ newMessages[k].content.kind = "WidgetRenderer"
        THEN newMessages[k].content.uri
        ELSE Null

\* mutant: the handler does not look the identifier up
HandleAddWidget_Unchecked(uri) ==
    /\ Len(messages) < MaxLog
    /\ messages' = Append(messages,
           ChatMessage("widget", WidgetRendererElement(uri, NoParameters)))
    /\ openWidgetUri' = uri
    /\ op' = "handleAddWidget"
    /\ reply' = NoReply
    /\ UNCHANGED <<fullscreenWidgets, renderer, seen, registry, widgetVars, input, loading,
                   sessionId, startSession, turns>>

\* handleAddWidget(uri)
HandleAddWidget(uri) ==
    /\ IF ~getWidget(uri).defined
       THEN /\ op' = "handleAddWidget.return"
            /\ reply' = NoReply
            /\ UNCHANGED <<messages, openWidgetUri>>
       ELSE /\ Len(messages) < MaxLog
            /\ messages' = Append(messages,
                   ChatMessage("widget", WidgetRendererElement(uri, NoParameters)))
            /\ openWidgetUri' = uri
            /\ op' = "handleAddWidget"
            /\ reply' = NoReply
    /\ UNCHANGED <<fullscreenWidgets, renderer, seen, registry, widgetVars, input, loading, sessionId, startSession, turns>>

\* handleRemoveWidget()
HandleRemoveWidget ==
    /\ LET actualIndex == LastWidgetIndex(messages)
       IN  IF actualIndex = 0
           THEN /\ op' = "handleRemoveWidget.return"
                /\ reply' = NoReply
                /\ UNCHANGED <<messages, openWidgetUri>>
           ELSE LET newMessages == RemoveAt(messages, actualIndex)
                IN  /\ messages' = newMessages
                    /\ openWidgetUri' = PointerAfterRemove(newMessages)
                    /\ op' = "handleRemoveWidget"
                    /\ reply' = NoReply
    /\ UNCHANGED <<fullscreenWidgets, renderer, seen, registry, widgetVars, input, loading, sessionId, startSession, turns>>

-----------------------------------------------------------------------------
(* Shrink and full-screen controls of a widget message (home.tsx:310-358) *)

\* fullscreenWidgets[idx] of an index that was never set
Undefined == "undefined"

\* fullscreenWidgets before any control was used: {}
NoFullscreenWidgets == [idx \in 1..MaxLog |-> Undefined]

\* mutant: the controls are offered for every widget message
ShowControls_EveryWidget(idx) ==
    /\ idx \in DOMAIN messages
    /\ messages[idx].role = "widget"

\* showShrink and showFull of the message at idx: the message is a widget message,
\* the uri prop of its element is truthy and the widget it resolves to declares
\* the visualization "both"
ShowControls(idx) ==
    /\ idx \in DOMAIN messages
    /\ messages[idx].role = "widget"
    /\ messages[idx].content.kind = "WidgetRenderer"
    /\ messages[idx].content.uri # ""
    /\ getWidget(messages[idx].content.uri).visualization = "both"

\* !prev[idx]
Not(b) == IF b = "true" THEN "false" ELSE "true"

\* onClick of the yellow button: setFullscreenWidgets(prev => ({...prev, [idx]: false}))
Shrink(idx) ==
    /\ ShowControls(idx)
    /\ fullscreenWidgets' = [fullscreenWidgets EXCEPT ![idx] = "false"]
    /\ op' = NoOp
    /\ reply' = NoReply
    /\ UNCHANGED <<renderer, seen, registry, widgetVars, messages, input, loading, sessionId,
                   openWidgetUri, startSession, turns>>

\* onClick of the green button:
\* setFullscreenWidgets(prev => ({...prev, [idx]: !prev[idx]}))
ToggleFullscreen(idx) ==
    /\ ShowControls(idx)
    /\ fullscreenWidgets' = [fullscreenWidgets EXCEPT ![idx] = Not(@)]
    /\ op' = NoOp
    /\ reply' = NoReply
    /\ UNCHANGED <<renderer, seen, registry, widgetVars, messages, input, loading, sessionId,
                   openWidgetUri, startSession, turns>>

-----------------------------------------------------------------------------
(* Input surface *)

\* the texts the user types into the textarea
Inputs == {<<>>, <<" ">>, <<" ", "hi", " ">>}

\* disabled={loading} of the textarea
InputDisabled == loading

\* onChange of the textarea: setInput(e.target.value)
SetInput(v) ==
    /\ v \in Inputs
    /\ ~InputDisabled
    /\ input' = v
    /\ op' = NoOp
    /\ reply' = NoReply
    /\ UNCHANGED <<fullscreenWidgets, renderer, seen, registry, widgetVars, messages, loading, sessionId, openWidgetUri,
                   startSession, turns>>

-----------------------------------------------------------------------------
(* Session start: the effect run once on mount *)

\* what GET /start-session can come to
StartSessionOutcomes == {"ok:s1", "ok:blank", "ok:missing", "notOk", "networkError"}

\* what op records of the outcome: a session id was taken from the response or not
SessionStarted(outcome) ==
    IF outcome = "ok:s1" THEN "startSession.ok" ELSE "startSession.failed"

\* mutant: a blank session_id is taken
SessionIdAfter_BlankTaken(sid, outcome) ==
    CASE outcome = "ok:s1" -> "s1"
      [] outcome = "ok:blank" -> " "
      [] OTHER -> sid

\* the session id after the effect has handled the outcome
SessionIdAfter(sid, outcome) == IF outcome = "ok:s1" THEN "s1" ELSE sid

StartSessionSettles(outcome) ==
    /\ outcome \in StartSessionOutcomes
    /\ startSession = "pending"
    /\ startSession' = "settled"
    /\ sessionId' = SessionIdAfter(sessionId, outcome)
    /\ op' = SessionStarted(outcome)
    /\ reply' = NoReply
    /\ UNCHANGED <<fullscreenWidgets, renderer, seen, registry, widgetVars, messages, input, loading, openWidgetUri, turns>>

-----------------------------------------------------------------------------
(* sendMessage up to its first await *)

\* what widget.getWidgetContext() can come to: a value or an exception
\* (Record<string, any> | string | undefined, registry.ts:53)
CtxUndefined   == [throws |-> FALSE, type |-> "undefined", size |-> 0]
CtxEmptyString == [throws |-> FALSE, type |-> "string", size |-> 0]
CtxString      == [throws |-> FALSE, type |-> "string", size |-> 1]
CtxEmptyObject == [throws |-> FALSE, type |-> "object", size |-> 0]
CtxObject      == [throws |-> FALSE, type |-> "object", size |-> 1]
CtxThrows      == [throws |-> TRUE, type |-> "undefined", size |-> 0]

\* a pointer is truthy iff it is neither null nor ''
PointerTruthy(p) == p # Null /\ p # ""

\* widget?.getWidgetContext?.() for the widget the pointer names
ExportOutcomes(pointer) ==
    IF PointerTruthy(pointer) /\ getWidget(pointer).defined
    THEN {CtxUndefined, CtxEmptyString, CtxString, CtxEmptyObject, CtxObject, CtxThrows}
    ELSE {CtxUndefined}

\* what op records of a submission: what widget?.getWidgetContext?.() came to
Submitted(c) ==
    CASE c = CtxThrows      -> "sendMessage.contextRaised"
      [] c = CtxUndefined   -> "sendMessage.contextUndefined"
      [] c = CtxEmptyString -> "sendMessage.contextEmptyString"
      [] c = CtxString      -> "sendMessage.contextString"
      [] c = CtxEmptyObject -> "sendMessage.contextEmptyObject"
      [] c = CtxObject      -> "sendMessage.contextObject"

\* mutant: the test is if (context)
ContextNonEmpty_Truthy(c) ==
    c.type = "object" \/ (c.type = "string" /\ c.size > 0)

\* context && Object.keys(context).length > 0
ContextNonEmpty(c) ==
    /\ (c.type = "object" \/ (c.type = "string" /\ c.size > 0))
    /\ c.size > 0

\* the body of a request that was not made
NoBody == [message |-> <<>>, session_id |-> ""]

\* no context-injection request was made
NoInjectionBody == [content |-> CtxUndefined, session_id |-> ""]

\* mutant: the injection request is not awaited, the chat request goes out at once
InjectionIssued_NotAwaited(userMessage, sid, pointer, c) ==
    [userMessage |-> userMessage, sessionId |-> sid,
     injection |-> "pending", context |-> c, contextOf |-> pointer,
     injectionBody |-> [content |-> c, session_id |-> sid],
     chat |-> "pending",
     chatBody |-> [message |-> userMessage, session_id |-> sid]]

\* the turn right after fetch('/context-injection') was called with the body
\* {content: context, session_id: sessionId}: await.  contextOf: the widget whose
\* getWidgetContext gave the context, getWidget(openWidgetUri)
InjectionIssued(userMessage, sid, pointer, c) ==
    [userMessage |-> userMessage, sessionId |-> sid,
     injection |-> "pending", context |-> c, contextOf |-> pointer,
     injectionBody |-> [content |-> c, session_id |-> sid],
     chat |-> "none", chatBody |-> NoBody]

\* mutant: the chat request carries the session id of the latest render
ChatIssued_LatestSessionId(t) ==
    [t EXCEPT !.chat = "pending",
              !.chatBody = [message |-> t.userMessage, session_id |-> sessionId]]

\* the turn right after fetch('/chat') was called with the body
\* {message: userMessage, session_id: sessionId}: await
ChatIssued(t) ==
    [t EXCEPT !.chat = "pending",
              !.chatBody = [message |-> t.userMessage, session_id |-> t.sessionId]]

\* the body of sendMessage from the try to its first await
BeginTurn(userMessage, sid, pointer, c) ==
    IF PointerTruthy(pointer) /\ ~c.throws /\ ContextNonEmpty(c)
    THEN InjectionIssued(userMessage, sid, pointer, c)
    ELSE ChatIssued(
            [userMessage |-> userMessage, sessionId |-> sid,
             injection |-> IF PointerTruthy(pointer) /\ c.throws THEN "threw" ELSE "none",
             context |-> CtxUndefined, contextOf |-> Null,
             injectionBody |-> NoInjectionBody,
             chat |-> "none", chatBody |-> NoBody])

\* if (!input.trim() || loading) return
SendMessageReturnsEarly == Trim(input) = EmptyString \/ loading

\* mutant: sendMessage does not raise the in-flight flag
LoadingAfterSubmit_Forgotten == FALSE

\* setLoading(true)
LoadingAfterSubmit == TRUE

\* sendMessage()
SendMessage ==
    /\ IF SendMessageReturnsEarly
       THEN /\ op' = "sendMessage.return"
            /\ reply' = NoReply
            /\ UNCHANGED <<messages, input, loading, turns, seen>>
       ELSE /\ Len(messages) < MaxLog
            /\ input' = EmptyString
            /\ messages' = Append(messages, ChatMessage("user", Str(Trim(input))))
            /\ loading' = LoadingAfterSubmit
            /\ \E c \in ExportOutcomes(openWidgetUri) :
                   /\ turns' = Append(turns,
                                   BeginTurn(Trim(input), sessionId, openWidgetUri, c))
                   /\ op' = Submitted(c)
            \* the session ids the requests of the page carried: those of this
            \* turn carry the sessionId of the render sendMessage was created in
            /\ seen' = [seen EXCEPT !.requests = @ \cup {sessionId}]
            /\ reply' = NoReply
    /\ UNCHANGED <<fullscreenWidgets, renderer, registry, widgetVars, sessionId, openWidgetUri, startSession>>

\* mutant: the rejection of the injection request is not caught apart, the chat
\* request is never made
AfterInjection_RejectionEscapes(t, result) ==
    IF result = "rejected"
    THEN [t EXCEPT !.injection = result]
    ELSE [t EXCEPT !.injection = result, !.chat = "pending",
                   !.chatBody = [message |-> t.userMessage,
                                 session_id |-> t.sessionId]]

\* the await of fetch('/context-injection') ends: the promise resolves (whatever the
\* status of the response) or rejects, the rejection is caught, and sendMessage
\* goes on to fetch('/chat')
AfterInjection(t, result) == ChatIssued([t EXCEPT !.injection = result])

InjectionSettles(i, result) ==
    /\ i \in DOMAIN turns
    /\ result \in {"resolved", "rejected"}
    /\ turns[i].injection = "pending"
    /\ turns' = [turns EXCEPT ![i] = AfterInjection(@, result)]
    /\ op' = NoOp
    /\ reply' = NoReply
    /\ UNCHANGED <<fullscreenWidgets, renderer, seen, registry, widgetVars, messages, input, loading, sessionId, openWidgetUri,
                   startSession>>

-----------------------------------------------------------------------------
(* The reply of POST /chat and its processing (data.flatMap) *)

\* an entry of the reply array; isNull: the entry is the JSON value null
Entry(role, content, result, tool) ==
    [isNull |-> FALSE, role |-> role, content |-> content, result |-> result,
     tool |-> tool]
NullEntry == [isNull |-> TRUE, role |-> "", content |-> Str(<<>>),
              result |-> Str(<<>>), tool |-> ""]

AssistantEntry(content) == Entry("assistant", content, Str(<<>>), "")
ToolEntry(result) == Entry("tool", Str(<<>>), result, "get_stock")

\* the entries the backend replies with
Entries ==
    { AssistantEntry(Json("wip://calendar",
                          ParameterList(<<Pair("x", 1)>>), <<"ok">>)),
      AssistantEntry(Json("wip://calendar", ParameterList(<<>>), <<>>)),
      AssistantEntry(Json("wip://unknown", ParameterList(<<>>), <<>>)),
      AssistantEntry(Json("", ParameterList(<<>>), <<"hello">>)),
      AssistantEntry(Json("", ParameterList(<<>>), <<>>)),
      AssistantEntry(Str(<<"plain">>)),
      AssistantEntry(JsonNull),
      AssistantEntry(Str(<<>>)),
      ToolEntry(Json("", NoParameters, <<"3">>)),
      ToolEntry(Str(<<"plain">>)),
      ToolEntry(Str(<<>>)),
      NullEntry }

\* the arrays of at most n entries
RECURSIVE Replies(_)
Replies(n) ==
    IF n = 0 THEN {<<>>}
    ELSE LET R == Replies(n - 1)
         IN  R \cup {Append(r, e) : r \in {q \in R : Len(q) = n - 1}, e \in Entries}

\* the arrays response.json() can yield
ReplySet == Replies(MaxReply)

\* the <div> shown for a tool entry: the tool name and either the raw result or
\* JSON.stringify(JSON.parse(result), null, 2)
ToolOutputElement(tool, result) ==
    [kind |-> "ToolOutput", text |-> result.text, uri |-> "",
     parameters |-> NoParameters, tool |-> tool,
     pretty |-> ~JSONParseThrows(result)]

\* mutant: an identifier the registry does not know is shown as raw text
WidgetEntryMessages_RegisteredOnly(content) ==
    IF getWidget(content.uri).defined
    THEN [msgs |-> <<ChatMessage("widget",
                        WidgetRendererElement(content.uri, content.parameters))>>
                   \o (IF content.text # EmptyString
                       THEN <<ChatMessage("assistant", Str(content.text))>>
                       ELSE <<>>),
          pointer |-> content.uri]
    ELSE [msgs |-> <<ChatMessage("assistant", content)>>, pointer |-> Null]

\* if (parsed.uri): the widget message, then the text if there is one;
\* setOpenWidgetUri(parsed.uri)
WidgetEntryMessages(content) ==
    [msgs |-> <<ChatMessage("widget",
                   WidgetRendererElement(content.uri, content.parameters))>>
              \o (IF content.text # EmptyString
                  THEN <<ChatMessage("assistant", Str(content.text))>>
                  ELSE <<>>),
     pointer |-> content.uri]

\* else if (parsed.text): setOpenWidgetUri(null) and the text
TextEntryMessages(content) ==
    [msgs |-> <<ChatMessage("assistant", Str(content.text))>>, pointer |-> Null]

\* mutant: content that does not decode is reported as an error
FallbackMessages_AsError(content) ==
    [msgs |-> <<ChatMessage("error", Str(ErrorText))>>, pointer |-> Null]

\* the fall-through: setOpenWidgetUri(null) and msg.content as it came
FallbackMessages(content) ==
    [msgs |-> <<ChatMessage("assistant", content)>>, pointer |-> Null]

\* the messages the callback of flatMap returns for an assistant entry with a
\* truthy content, and the pointer it leaves
AssistantMessages(content) ==
    IF ~JSONParseThrows(content) /\ content.kind = "json" /\ content.uri # ""
    THEN WidgetEntryMessages(content)
    ELSE IF ~JSONParseThrows(content) /\ content.kind = "json"
            /\ content.text # EmptyString
    THEN TextEntryMessages(content)
    ELSE \* no text, JSON null (parsed.uri raises inside the try) or no JSON at all
         FallbackMessages(content)

\* one call of the callback of flatMap: msg.role raises a TypeError on null
EntryMessages(msg, pointer) ==
    IF msg.isNull
    THEN [threw |-> TRUE, msgs |-> <<>>, pointer |-> pointer]
    ELSE IF msg.role = "tool" /\ ~Falsy(msg.result)
    THEN [threw |-> FALSE,
          msgs |-> <<ChatMessage("tool", ToolOutputElement(msg.tool, msg.result))>>,
          pointer |-> pointer]
    ELSE IF msg.role = "assistant" /\ ~Falsy(msg.content)
    THEN LET a == AssistantMessages(msg.content)
         IN  [threw |-> FALSE, msgs |-> a.msgs, pointer |-> a.pointer]
    ELSE [threw |-> FALSE, msgs |-> <<>>, pointer |-> pointer]

\* mutant: the messages of a later entry come before those of an earlier one
RECURSIVE FlatMap_Reversed(_, _)
FlatMap_Reversed(data, pointer) ==
    IF data = <<>>
    THEN [threw |-> FALSE, msgs |-> <<>>, pointer |-> pointer]
    ELSE LET h == EntryMessages(Head(data), pointer)
         IN  IF h.threw
             THEN h
             ELSE LET r == FlatMap_Reversed(Tail(data), h.pointer)
                  IN  [threw |-> r.threw,
                       msgs |-> IF r.threw THEN <<>> ELSE r.msgs \o h.msgs,
                       pointer |-> r.pointer]

\* data.flatMap(...): the entries in order; the setOpenWidgetUri calls made before
\* an entry raises stay made
RECURSIVE FlatMap(_, _)
FlatMap(data, pointer) ==
    IF data = <<>>
    THEN [threw |-> FALSE, msgs |-> <<>>, pointer |-> pointer]
    ELSE LET h == EntryMessages(Head(data), pointer)
         IN  IF h.threw
             THEN h
             ELSE LET r == FlatMap(Tail(data), h.pointer)
                  IN  [threw |-> r.threw,
                       msgs |-> IF r.threw THEN <<>> ELSE h.msgs \o r.msgs,
                       pointer |-> r.pointer]

\* the values of the pointer
Pointers == Uris \cup {Null}

\* data.flatMap(...) of every reply of the model, tabulated by the pointer it starts from
ReplyOutcomes ==
    [pointer \in Pointers |->
        {[data |-> d, result |-> FlatMap(d, pointer)] : d \in ReplySet}]

\* mutant: the failure is shown as an assistant message
ErrorMessage_AsAssistant == ChatMessage("assistant", Str(ErrorText))

\* the message of the catch block
ErrorMessage == ChatMessage("error", Str(ErrorText))

\* mutant: the in-flight flag is not lowered when the turn ends
LoadingAfterTurn_Stuck == loading

\* finally: setLoading(false)
LoadingAfterTurn == FALSE

\* the turn without its i-th suspended invocation
DropTurn(ts, i) == SubSeq(ts, 1, i - 1) \o SubSeq(ts, i + 1, Len(ts))

\* the await of fetch('/chat') or of response.json() ends by raising: a network
\* error, a response that is not ok, or a body that is no JSON
ChatFailures == {"networkError", "notOk", "bodyNotJson"}

ChatFails(i, failure) ==
    /\ i \in DOMAIN turns
    /\ failure \in ChatFailures
    /\ turns[i].chat = "pending"
    /\ Len(messages) < MaxLog
    /\ messages' = Append(messages, ErrorMessage)
    /\ loading' = LoadingAfterTurn
    /\ turns' = DropTurn(turns, i)
    /\ op' = "chat.failed"
    /\ reply' = NoReply
    /\ UNCHANGED <<fullscreenWidgets, renderer, seen, registry, widgetVars, input, sessionId, openWidgetUri, startSession>>

\* response.json() yields a value that is no array: nothing is shown
ChatRepliesNoArray(i) ==
    /\ i \in DOMAIN turns
    /\ turns[i].chat = "pending"
    /\ loading' = LoadingAfterTurn
    /\ turns' = DropTurn(turns, i)
    /\ op' = "chat.noArray"
    /\ reply' = NoReply
    /\ UNCHANGED <<fullscreenWidgets, renderer, seen, registry, widgetVars, messages, input, sessionId, openWidgetUri, startSession>>

\* response.json() yields the array data; r is FlatMap(data, openWidgetUri)
ChatReplies(i, data, r) ==
    /\ i \in DOMAIN turns
    /\ turns[i].chat = "pending"
    /\ openWidgetUri' = r.pointer
    /\ IF r.threw
       THEN /\ Len(messages) < MaxLog
            /\ messages' = Append(messages, ErrorMessage)
            /\ op' = "chat.replyRaised"
       ELSE /\ Len(messages) + Len(r.msgs) <= MaxLog
            /\ messages' = messages \o r.msgs
            /\ op' = "chat.reply"
    /\ reply' = [applied |-> TRUE, data |-> data, base |-> Len(messages)]
    /\ loading' = LoadingAfterTurn
    /\ turns' = DropTurn(turns, i)
    /\ UNCHANGED <<fullscreenWidgets, renderer, seen, registry, widgetVars, input, sessionId, startSession>>

-----------------------------------------------------------------------------
(* InteractiveCalendar (widgets/components/NewCalendar2.tsx) *)

\* the calendars a log holds at most, and the days and months (0-based) of the
\* model; the year never changes within them, so lastSelectedYear, which every
\* assignment sets together with lastSelectedMonth, is not kept apart
MaxCalendars == 2
MaxDay == 2
MaxMonth == 1

Days == 1..MaxDay
Months == 0..MaxMonth

\* null in a variable of type number | null
NullNumber == -1

\* what getWidgetContext returns: undefined, or the text with the date
NoContext == [defined |-> FALSE, month |-> NullNumber, day |-> NullNumber]

\* new Date(): the month of today
TodayMonth == 0

\* parameters.initial_date: absent, or a date of the model
NoInitialDate == [given |-> FALSE, month |-> 0, day |-> 0]
InitialDates ==
    {NoInitialDate} \cup {[given |-> TRUE, month |-> m, day |-> d] : m \in Months, d \in Days}

\* the state behind the orchestrator: the variables of the module and what is
\* still the same for all instances, no instance, no loadEvents in flight
NoCalendar ==
    [lastSelectedDay |-> NullNumber, lastSelectedMonth |-> NullNumber,
     instances |-> <<>>, loads |-> <<>>]

\* the state hooks of a new instance: currentMonth from initial_date or today,
\* selectedDay null
NewInstance(initial) ==
    [initial |-> initial,
     currentMonth |-> IF initial.given THEN initial.month ELSE TodayMonth,
     selectedDay |-> NullNumber]

\* the effect of [parameters?.initial_date, currentMonth, currentYear] on the
\* instance: the initial date is selected if it lies in the month shown
InitialDateSelects(inst) == inst.initial.given /\ inst.initial.month = inst.currentMonth

InstanceAfterEffect(inst) ==
    IF InitialDateSelects(inst) THEN [inst EXCEPT !.selectedDay = inst.initial.day]
    ELSE inst

\* InteractiveCalendar.getWidgetContext, from the variables of the module
getWidgetContext(day, month) ==
    IF day # NullNumber /\ month # NullNumber
    THEN [defined |-> TRUE, month |-> month, day |-> day]
    ELSE NoContext

\* a calendar message is appended and its component mounted: the effects run,
\* loadEvents is called
OpenCalendar(initial) ==
    /\ initial \in InitialDates
    /\ Len(calendar.instances) < MaxCalendars
    /\ Len(calendar.loads) < MaxCalendars
    /\ LET inst == NewInstance(initial) IN
       calendar' =
           [calendar EXCEPT
               !.instances = Append(@, InstanceAfterEffect(inst)),
               !.loads = Append(@, inst.currentMonth),
               !.lastSelectedDay =
                   IF InitialDateSelects(inst) THEN initial.day ELSE @,
               !.lastSelectedMonth =
                   IF InitialDateSelects(inst) THEN initial.month ELSE @]
    /\ op' = IF initial.given THEN "calendar.openAtDate" ELSE "calendar.open"
    /\ reply' = NoReply
    /\ UNCHANGED <<homeVars, scanner, prompts, carousel>>

\* await mockAPI.fetchEvents(...) of a loadEvents call ends, of an instance that
\* is mounted or not: lastSelectedMonth = currentMonth of that call
LoadEventsSettles(k) ==
    /\ k \in DOMAIN calendar.loads
    /\ calendar' =
           [calendar EXCEPT
               !.lastSelectedMonth = calendar.loads[k],
               !.loads = SubSeq(@, 1, k - 1) \o SubSeq(@, k + 1, Len(@))]
    /\ op' = "calendar.loadEvents"
    /\ reply' = NoReply
    /\ UNCHANGED <<homeVars, scanner, prompts, carousel>>

\* handleDayClick(day) in the i-th calendar of the log
HandleDayClick(i, day) ==
    /\ i \in DOMAIN calendar.instances
    /\ day \in Days
    /\ calendar' =
           [calendar EXCEPT
               !.instances[i].selectedDay = day,
               !.lastSelectedDay = day,
               !.lastSelectedMonth = calendar.instances[i].currentMonth]
    /\ op' = IF i = Len(calendar.instances) THEN "handleDayClick.newest"
             ELSE "handleDayClick.older"
    /\ reply' = NoReply
    /\ UNCHANGED <<homeVars, scanner, prompts, carousel>>

\* changeMonth(delta) in the i-th calendar, within the months of the model: the
\* selection of the instance is dropped, both effects run again
ChangeMonth(i, delta) ==
    /\ i \in DOMAIN calendar.instances
    /\ delta \in {-1, 1}
    /\ calendar.instances[i].currentMonth + delta \in Months
    /\ Len(calendar.loads) < MaxCalendars
    /\ LET inst == [calendar.instances[i] EXCEPT
                       !.currentMonth = @ + delta, !.selectedDay = NullNumber] IN
       calendar' =
           [calendar EXCEPT
               !.instances[i] = InstanceAfterEffect(inst),
               !.loads = Append(@, inst.currentMonth),
               !.lastSelectedDay =
                   IF InitialDateSelects(inst) THEN inst.initial.day ELSE @,
               !.lastSelectedMonth =
                   IF InitialDateSelects(inst) THEN inst.initial.month ELSE @]
    /\ op' = "changeMonth"
    /\ reply' = NoReply
    /\ UNCHANGED <<homeVars, scanner, prompts, carousel>>

\* handleBackToMonth() in the i-th calendar
HandleBackToMonth(i) ==
    /\ i \in DOMAIN calendar.instances
    /\ calendar.instances[i].selectedDay # NullNumber
    /\ calendar' = [calendar EXCEPT !.instances[i].selectedDay = NullNumber]
    /\ op' = "handleBackToMonth"
    /\ reply' = NoReply
    /\ UNCHANGED <<homeVars, scanner, prompts, carousel>>

\* the remove control of the orchestrator takes the last widget message off the
\* log: the newest calendar is unmounted; the component has no cleanup
RemoveCalendar ==
    /\ calendar.instances # <<>>
    /\ calendar' = [calendar EXCEPT
                       !.instances = SubSeq(@, 1, Len(@) - 1)]
    /\ op' = "calendar.remove"
    /\ reply' = NoReply
    /\ UNCHANGED <<homeVars, scanner, prompts, carousel>>

CalendarNext ==
    \/ \E initial \in InitialDates : OpenCalendar(initial)
    \/ \E k \in 1..MaxCalendars : LoadEventsSettles(k)
    \/ \E i \in 1..MaxCalendars, day \in Days : HandleDayClick(i, day)
    \/ \E i \in 1..MaxCalendars, delta \in {-1, 1} : ChangeMonth(i, delta)
    \/ \E i \in 1..MaxCalendars : HandleBackToMonth(i)
    \/ RemoveCalendar

-----------------------------------------------------------------------------
(* QRScannerWidget *)

\* the media streams getUserMedia hands out during the life of the page
MaxStreams == 3

\* streamRef.current = null
NoStream == 0

\* before the widget is opened
NoScanner ==
    [mounted |-> FALSE, scanState |-> "idle", streamRef |-> NoStream,
     animationFrameId |-> FALSE, tracks |-> {}, issued |-> 0, pending |-> 0]

\* stopScan(): the tracks of streamRef.current are stopped and the ref cleared,
\* the animation frame is cancelled
stopScan(sc) ==
    [sc EXCEPT !.tracks = @ \ {sc.streamRef},
               !.streamRef = NoStream,
               !.animationFrameId = FALSE]

\* setScanState(s): nothing for a component that is unmounted
setScanState(sc, s) == IF sc.mounted THEN [sc EXCEPT !.scanState = s] ELSE sc

\* the <video> element is rendered only in the state 'scanning'
VideoRendered(sc) == sc.mounted /\ sc.scanState = "scanning"

\* the widget is opened
MountScanner ==
    /\ ~scanner.mounted
    /\ scanner.issued = 0 /\ scanner.pending = 0
    /\ scanner' = [scanner EXCEPT !.mounted = TRUE]
    /\ op' = "scanner.mount"
    /\ reply' = NoReply
    /\ UNCHANGED <<homeVars, calendar, prompts, carousel>>

\* startScan() up to await navigator.mediaDevices.getUserMedia(...)
StartScan ==
    /\ scanner.mounted
    /\ scanner.scanState \in {"idle", "scanned", "error"}
    /\ scanner.issued + scanner.pending < MaxStreams
    /\ scanner' = [scanner EXCEPT !.scanState = "scanning", !.pending = @ + 1]
    /\ op' = "startScan"
    /\ reply' = NoReply
    /\ UNCHANGED <<homeVars, calendar, prompts, carousel>>

\* getUserMedia resolves with a stream: streamRef.current = stream; if the video
\* element is there it is played, and play() resolves (the scan loop starts) or
\* rejects (catch: 'error', stopScan)
GetUserMediaResolves(played) ==
    /\ scanner.pending > 0
    /\ played \in BOOLEAN
    /\ LET stream == scanner.issued + 1
           got == [scanner EXCEPT !.pending = @ - 1, !.issued = stream,
                                  !.tracks = @ \cup {stream},
                                  !.streamRef = stream] IN
       scanner' =
           IF ~VideoRendered(scanner) THEN got
           ELSE IF played THEN [got EXCEPT !.animationFrameId = TRUE]
           ELSE stopScan(setScanState(got, "error"))
    /\ op' = "getUserMedia.resolved"
    /\ reply' = NoReply
    /\ UNCHANGED <<homeVars, calendar, prompts, carousel>>

\* getUserMedia rejects: catch: 'error', stopScan
GetUserMediaRejects ==
    /\ scanner.pending > 0
    /\ scanner' = stopScan(setScanState([scanner EXCEPT !.pending = @ - 1], "error"))
    /\ op' = "getUserMedia.rejected"
    /\ reply' = NoReply
    /\ UNCHANGED <<homeVars, calendar, prompts, carousel>>

\* scanQRCode finds a code in a frame: 'scanned', stopScan
CodeFound ==
    /\ VideoRendered(scanner)
    /\ scanner.animationFrameId
    /\ scanner' = stopScan(setScanState(scanner, "scanned"))
    /\ op' = "scanQRCode"
    /\ reply' = NoReply
    /\ UNCHANGED <<homeVars, calendar, prompts, carousel>>

\* reset(), the Cancel button of the state 'scanning'
ResetScan ==
    /\ scanner.mounted
    /\ scanner.scanState = "scanning"
    /\ scanner' = setScanState(stopScan(scanner), "idle")
    /\ op' = "reset"
    /\ reply' = NoReply
    /\ UNCHANGED <<homeVars, calendar, prompts, carousel>>

\* the widget message is removed: the cleanup of the effect calls stopScan
UnmountScanner ==
    /\ scanner.mounted
    /\ scanner' = [stopScan(scanner) EXCEPT !.mounted = FALSE]
    /\ op' = "scanner.unmount"
    /\ reply' = NoReply
    /\ UNCHANGED <<homeVars, calendar, prompts, carousel>>

ScannerNext ==
    \/ MountScanner
    \/ StartScan
    \/ \E played \in BOOLEAN : GetUserMediaResolves(played)
    \/ GetUserMediaRejects
    \/ CodeFound
    \/ ResetScan
    \/ UnmountScanner

-----------------------------------------------------------------------------
(* initWidget of ImageCarouselWidget and of ProductStockWidget *)

\* the widget instances opened at most
MaxInstances == 3

\* document.getElementById("image-carousel-init-prompt") finds nothing
NoOverlay == 0

\* no widget opened, no overlay in the document
NoPrompts == [overlay |-> NoOverlay, instances |-> <<>>]

\* the overlay after initWidget of the instance at position i: none is created
\* if the parameter is there (parameters.ids is a non-empty array, resp.
\* parameters.sku is truthy) or if an element with the id of the overlay, which
\* both widgets use, is in the document
OverlayAfterInit(overlay, inst, i) ==
    IF inst.params # "missing" THEN overlay
    ELSE IF overlay # NoOverlay THEN overlay
    ELSE i

\* a widget message of one of the two widgets is appended: the renderer mounts
\* and its effect calls Widget.initWidget(params, setParams)
InitWidget(uri, given) ==
    /\ uri \in {"wip://image-carousel", "wip://stock-level-inspector"}
    /\ given \in BOOLEAN
    /\ Len(prompts.instances) < MaxInstances
    /\ LET inst == [uri |-> uri, params |-> IF given THEN "given" ELSE "missing"]
           i == Len(prompts.instances) + 1 IN
       prompts' = [instances |-> Append(prompts.instances, inst),
                   overlay |-> OverlayAfterInit(prompts.overlay, inst, i)]
    /\ op' = IF given THEN "initWidget.given" ELSE "initWidget.missing"
    /\ reply' = NoReply
    /\ UNCHANGED <<homeVars, calendar, scanner, carousel>>

\* Done, resp. Add, with a value entered: setParams(newParams) of the instance
\* the overlay was created for, and the overlay is removed
ConfirmPrompt ==
    /\ prompts.overlay # NoOverlay
    /\ prompts' = [prompts EXCEPT !.instances[prompts.overlay].params = "entered",
                                  !.overlay = NoOverlay]
    /\ op' = "prompt.confirm"
    /\ reply' = NoReply
    /\ UNCHANGED <<homeVars, calendar, scanner, carousel>>

\* Cancel, or a click on the overlay outside the modal
DismissPrompt ==
    /\ prompts.overlay # NoOverlay
    /\ prompts' = [prompts EXCEPT !.overlay = NoOverlay]
    /\ op' = "prompt.dismiss"
    /\ reply' = NoReply
    /\ UNCHANGED <<homeVars, calendar, scanner, carousel>>

PromptNext ==
    \/ \E uri \in {"wip://image-carousel", "wip://stock-level-inspector"}, given \in BOOLEAN :
           InitWidget(uri, given)
    \/ ConfirmPrompt
    \/ DismissPrompt

-----------------------------------------------------------------------------
(* ImageCarouselWidget *)

\* the images of a carousel at most
MaxUrls == 3

minSwipeDistance == 50

\* clientX of the pointer: 0, and positions less and more than minSwipeDistance apart
ClientXs == {0, 100, 130, 200}

\* before the widget is opened
NoCarousel ==
    [mounted |-> FALSE, prompt |-> FALSE, currentIndex |-> 0, urls |-> <<>>,
     isLoading |-> TRUE, fetching |-> 0,
     isDragging |-> FALSE, touchStartX |-> 0, touchEndX |-> 0]

\* prevSlide()
prevSlide(c) ==
    IF Len(c.urls) < 2 THEN c
    ELSE [c EXCEPT !.currentIndex =
              IF c.currentIndex = 0 THEN Len(c.urls) - 1 ELSE c.currentIndex - 1]

\* mutant: nextSlide does not wrap
nextSlide_NoWrap(c) ==
    IF Len(c.urls) < 2 THEN c
    ELSE [c EXCEPT !.currentIndex = c.currentIndex + 1]

\* nextSlide()
nextSlide(c) ==
    IF Len(c.urls) < 2 THEN c
    ELSE [c EXCEPT !.currentIndex =
              IF c.currentIndex = Len(c.urls) - 1 THEN 0 ELSE c.currentIndex + 1]

\* goToSlide(slideIndex)
goToSlide(c, slideIndex) == [c EXCEPT !.currentIndex = slideIndex]

\* handleInteractionEnd()
handleInteractionEnd(c) ==
    IF ~c.isDragging THEN c
    ELSE LET distance == c.touchStartX - c.touchEndX
             moved == IF c.touchStartX # 0 /\ c.touchEndX # 0
                      THEN IF distance > minSwipeDistance THEN nextSlide(c)
                           ELSE IF distance < -minSwipeDistance THEN prevSlide(c)
                           ELSE c
                      ELSE c IN
         [moved EXCEPT !.isDragging = FALSE, !.touchStartX = 0, !.touchEndX = 0]

\* the carousel itself is rendered, not 'Loading Images...' nor 'No images to
\* display.', and the overlay of its init prompt does not cover the page
CarouselRendered ==
    /\ carousel.mounted
    /\ ~carousel.isLoading
    /\ carousel.urls # <<>>
    /\ ~carousel.prompt

\* the arrows and the dots are rendered: urls.length > 1
ControlsRendered == CarouselRendered /\ Len(carousel.urls) > 1

\* the widget is opened with imageUrls image_urls and ids ids: processUrls starts,
\* and initWidget shows its prompt if there are no ids (shown: no other prompt is
\* on the page)
MountCarousel(imageUrls, ids, shown) ==
    /\ ~carousel.mounted
    /\ imageUrls \in 0..MaxUrls
    /\ ids \in 0..MaxUrls
    /\ shown \in BOOLEAN
    /\ carousel' = [carousel EXCEPT
                       !.mounted = TRUE,
                       !.prompt = (ids = 0 /\ shown),
                       !.isLoading = TRUE,
                       !.fetching = IF imageUrls > 0 THEN imageUrls ELSE ids]
    /\ op' = "carousel.mount"
    /\ reply' = NoReply
    /\ UNCHANGED <<homeVars, calendar, scanner, prompts>>

\* processUrls ends: setUrls(finalUrls), setIsLoading(false)
UrlsProcessed ==
    /\ carousel.mounted
    /\ carousel.isLoading
    /\ carousel' = [carousel EXCEPT !.urls = [k \in 1..carousel.fetching |-> k],
                                    !.isLoading = FALSE]
    /\ op' = "processUrls"
    /\ reply' = NoReply
    /\ UNCHANGED <<homeVars, calendar, scanner, prompts>>

\* Done in the prompt with ids entered: setParams({ids}); the parameters change,
\* the effect runs again (the run before it is cancelled by isMounted = false)
PromptDone(ids) ==
    /\ carousel.prompt
    /\ ids \in 1..MaxUrls
    /\ carousel' = [carousel EXCEPT !.prompt = FALSE, !.isLoading = TRUE,
                                    !.fetching = ids]
    /\ op' = "carousel.done"
    /\ reply' = NoReply
    /\ UNCHANGED <<homeVars, calendar, scanner, prompts>>

\* Cancel in the prompt, or a click outside the modal
PromptCancel ==
    /\ carousel.prompt
    /\ carousel' = [carousel EXCEPT !.prompt = FALSE]
    /\ op' = "carousel.cancel"
    /\ reply' = NoReply
    /\ UNCHANGED <<homeVars, calendar, scanner, prompts>>

PrevSlide ==
    /\ ControlsRendered
    /\ carousel' = prevSlide(carousel)
    /\ op' = "prevSlide"
    /\ reply' = NoReply
    /\ UNCHANGED <<homeVars, calendar, scanner, prompts>>

NextSlide ==
    /\ ControlsRendered
    /\ carousel' = nextSlide(carousel)
    /\ op' = "nextSlide"
    /\ reply' = NoReply
    /\ UNCHANGED <<homeVars, calendar, scanner, prompts>>

\* a click on the dot of slide slideIndex
GoToSlide(slideIndex) ==
    /\ ControlsRendered
    /\ slideIndex \in 0..(Len(carousel.urls) - 1)
    /\ carousel' = goToSlide(carousel, slideIndex)
    /\ op' = "goToSlide"
    /\ reply' = NoReply
    /\ UNCHANGED <<homeVars, calendar, scanner, prompts>>

\* handleInteractionStart(clientX): touch start, mouse down
HandleInteractionStart(clientX) ==
    /\ CarouselRendered
    /\ clientX \in ClientXs
    /\ carousel' = [carousel EXCEPT !.isDragging = TRUE, !.touchEndX = 0,
                                    !.touchStartX = clientX]
    /\ op' = "handleInteractionStart"
    /\ reply' = NoReply
    /\ UNCHANGED <<homeVars, calendar, scanner, prompts>>

\* handleInteractionMove(clientX): touch move, mouse move
HandleInteractionMove(clientX) ==
    /\ CarouselRendered
    /\ clientX \in ClientXs
    /\ carousel.isDragging
    /\ carousel' = [carousel EXCEPT !.touchEndX = clientX]
    /\ op' = "handleInteractionMove"
    /\ reply' = NoReply
    /\ UNCHANGED <<homeVars, calendar, scanner, prompts>>

\* handleInteractionEnd(): touch end, mouse up, mouse leave
HandleInteractionEnd ==
    /\ CarouselRendered
    /\ carousel' = handleInteractionEnd(carousel)
    /\ op' = IF carousel.isDragging THEN "handleInteractionEnd"
             ELSE "handleInteractionEnd.return"
    /\ reply' = NoReply
    /\ UNCHANGED <<homeVars, calendar, scanner, prompts>>

CarouselNext ==
    \/ \E imageUrls \in 0..MaxUrls, ids \in 0..MaxUrls, shown \in BOOLEAN :
           MountCarousel(imageUrls, ids, shown)
    \/ UrlsProcessed
    \/ \E ids \in 1..MaxUrls : PromptDone(ids)
    \/ PromptCancel
    \/ PrevSlide
    \/ NextSlide
    \/ \E slideIndex \in 0..(MaxUrls - 1) : GoToSlide(slideIndex)
    \/ \E clientX \in ClientXs : HandleInteractionStart(clientX)
    \/ \E clientX \in ClientXs : HandleInteractionMove(clientX)
    \/ HandleInteractionEnd

-----------------------------------------------------------------------------
(* The orchestrator *)

Init ==
    /\ registry = widgets
    /\ messages = <<>>
    /\ input = EmptyString
    /\ loading = FALSE
    /\ sessionId = "default"
    /\ openWidgetUri = Null
    /\ startSession = "pending"
    /\ turns = <<>>
    /\ fullscreenWidgets = NoFullscreenWidgets
    /\ renderer = Unmounted
    /\ seen = NothingSeen
    /\ op = NoOp
    /\ reply = NoReply
    /\ calendar = NoCalendar
    /\ scanner = NoScanner
    /\ prompts = NoPrompts
    /\ carousel = NoCarousel

Next ==
    \/ \E v \in Inputs : SetInput(v)
    \/ \E o \in StartSessionOutcomes : StartSessionSettles(o)
    \/ SendMessage
    \/ \E i \in DOMAIN turns, r \in {"resolved", "rejected"} : InjectionSettles(i, r)
    \/ \E i \in DOMAIN turns, f \in ChatFailures : ChatFails(i, f)
    \/ \E i \in DOMAIN turns : ChatRepliesNoArray(i)
    \/ \E i \in DOMAIN turns, x \in ReplyOutcomes[openWidgetUri] :
           ChatReplies(i, x.data, x.result)
    \/ \E u \in Uris : HandleAddWidget(u)
    \/ HandleRemoveWidget

\* The turns, the picker and the removal.  No guard and no assignment of these
\* reads fullscreenWidgets; the controls that write it are added in HomeSpec.
Spec == Init /\ [][Next]_vars

\* every handler of Home: the above and the shrink and full-screen controls
HomeNext ==
    \/ Next
    \/ \E idx \in DOMAIN messages : Shrink(idx)
    \/ \E idx \in DOMAIN messages : ToggleFullscreen(idx)

HomeSpec == Init /\ [][HomeNext]_vars

\* the registry on its own, from the empty table: any sequence of
\* registrations and lookups
RegistryInit ==
    /\ registry = EmptyRegistry
    /\ messages = <<>>
    /\ input = EmptyString
    /\ loading = FALSE
    /\ sessionId = "default"
    /\ openWidgetUri = Null
    /\ startSession = "pending"
    /\ turns = <<>>
    /\ fullscreenWidgets = NoFullscreenWidgets
    /\ renderer = Unmounted
    /\ seen = NothingSeen
    /\ op = NoOp
    /\ reply = NoReply
    /\ calendar = NoCalendar
    /\ scanner = NoScanner
    /\ prompts = NoPrompts
    /\ carousel = NoCarousel

RegistryNext ==
    \/ \E entries \in EntryMaps : RegisterWidgets(entries)
    \/ \E id \in Ids : GetWidget(id)

RegistrySpec == RegistryInit /\ [][RegistryNext]_vars

\* the picker, with the widgets of the chat example registered at start-up and
\* any registrations after it
MenuNext ==
    \/ \E entries \in EntryMaps : RegisterWidgets(entries)
    \/ \E raises \in SUBSET DOMAIN widgets : RenderMenu(raises)

MenuSpec == Init /\ [][MenuNext]_vars

\* the calendars of one page
CalendarSpec == Init /\ [][CalendarNext]_vars

\* one QR scanner
ScannerSpec == Init /\ [][ScannerNext]_vars

\* the init prompts of the widgets opened on one page
PromptSpec == Init /\ [][PromptNext]_vars

\* one image carousel
CarouselSpec == Init /\ [][CarouselNext]_vars

\* one WidgetRenderer of a caller, with the widgets of the chat example registered
RendererNext ==
    \/ \E uri \in RendererUris, parameters \in ParameterValues : Mount(uri, parameters)
    \/ \E uri \in RendererUris, parameters \in ParameterValues :
           Rerender(uri, parameters)
    \/ \E newParams \in SetterValues : SetParams(newParams)
    \/ Unmount

RendererSpec == Init /\ [][RendererNext]_vars

\* The picker on its own: the widget menu lists Object.keys(widgets) and calls
\* handleAddWidget with the entry that was clicked; every widget message carries
\* the remove control
PickerNext ==
    \/ \E u \in DOMAIN widgets : HandleAddWidget(u)
    \/ HandleRemoveWidget

PickerSpec == Init /\ [][PickerNext]_vars

\* Every request of the backend is answered or fails in the end: the awaits of
\* sendMessage are resumed.  A reply is applied in one step whatever its length,
\* so the replies of at most one entry stand for all of them here.
BackendSettles ==
    \/ \E i \in DOMAIN turns, r \in {"resolved", "rejected"} : InjectionSettles(i, r)
    \/ \E i \in DOMAIN turns, f \in ChatFailures : ChatFails(i, f)
    \/ \E i \in DOMAIN turns : ChatRepliesNoArray(i)
    \/ \E i \in DOMAIN turns,
          x \in {y \in ReplyOutcomes[openWidgetUri] : Len(y.data) <= 1} :
           ChatReplies(i, x.data, x.result)

FairNext ==
    \/ \E v \in Inputs : SetInput(v)
    \/ \E o \in StartSessionOutcomes : StartSessionSettles(o)
    \/ SendMessage
    \/ BackendSettles
    \/ \E u \in Uris : HandleAddWidget(u)
    \/ HandleRemoveWidget

FairSpec == Init /\ [][FairNext]_vars /\ WF_vars(BackendSettles)

-----------------------------------------------------------------------------
(* Properties *)

\* the positions of the widget messages of the log
WidgetPositions == {i \in 1..Len(messages) : messages[i].role = "widget"}

\* the pointer names the most recent widget message of the log
PointerNamesLastWidget ==
    \E i \in WidgetPositions :
        /\ \A j \in WidgetPositions : j <= i
        /\ openWidgetUri = messages[i].content.uri

\* C1: after any sequence of picker opens of registered identifiers and widget
\* removals from the empty log, OpenWidgetPointer is the identifier of the last
\* widget message of the log, and is empty if the log holds no widget message.
C1_PickerPointerIsLastWidget ==
    IF WidgetPositions = {} THEN openWidgetUri = Null ELSE PointerNamesLastWidget

\* C1 witness: a removal has handed the pointer back to an earlier widget
C1_Witness ==
    /\ op = "handleRemoveWidget"
    /\ WidgetPositions # {}
    /\ openWidgetUri = "wip://calendar"

\* C2: in every state of the orchestrator, OpenWidgetPointer is empty or is the
\* identifier of the most recent widget message still in the log.
C2_PointerEmptyOrLastWidget ==
    openWidgetUri = Null \/ PointerNamesLastWidget

\* C3: at most one chat turn is in flight, and a call of sendMessage while loading
\* is true changes nothing: no message, no request, nothing queued.
C3_SingleFlight ==
    /\ [](Len(turns) <= 1)
    /\ [][(loading /\ op' = "sendMessage.return") =>
            UNCHANGED <<messages, turns, input, loading, openWidgetUri, sessionId>>]_vars

\* C3 witness: sendMessage was called during a turn and returned at once
C3_Witness ==
    /\ op = "sendMessage.return"
    /\ loading
    /\ Len(turns) = 1

\* C4: within a turn the chat request is made only once the context-injection
\* request, if there is one, has resolved or failed; the two are never pending
\* together.
C4_InjectionBeforeChat ==
    \A i \in DOMAIN turns :
        /\ ~(turns[i].injection = "pending" /\ turns[i].chat = "pending")
        /\ turns[i].chat = "pending" =>
               turns[i].injection \in {"none", "threw", "resolved", "rejected"}

\* C4 witness: the chat request is pending after the injection request came back
C4_Witness ==
    \E i \in DOMAIN turns :
        /\ turns[i].injection = "resolved"
        /\ turns[i].chat = "pending"

\* the position of the last user message of the log, 0 if there is none
LastUserPosition ==
    LET U == {i \in 1..Len(messages) : messages[i].role = "user"}
    IN  IF U = {} THEN 0 ELSE CHOOSE i \in U : \A j \in U : j <= i

\* C5: when the context-injection step of a turn fails (exportContext raises or
\* the injection request is rejected), the chat request of the turn is still made,
\* with the trimmed text the user submitted and the session id sendMessage ran
\* with, and no error message is appended on account of that failure.
C5_InjectionFailureDoesNotBlockChat ==
    \A i \in DOMAIN turns :
        turns[i].injection \in {"threw", "rejected"} =>
            /\ turns[i].chat = "pending"
            /\ LastUserPosition # 0
            /\ turns[i].chatBody.message = messages[LastUserPosition].content.text
            /\ turns[i].chatBody.message # EmptyString
            /\ Head(turns[i].chatBody.message) # " "
            /\ turns[i].chatBody.message[Len(turns[i].chatBody.message)] # " "
            /\ turns[i].chatBody.session_id = turns[i].sessionId
            /\ \A j \in LastUserPosition..Len(messages) : messages[j].role # "error"

\* C5 witness: the injection request was rejected and the chat request is out
C5_Witness ==
    \E i \in DOMAIN turns :
        /\ turns[i].injection = "rejected"
        /\ turns[i].chat = "pending"

\* C6: every started turn comes back to idle: if the backend answers or fails
\* every request, loading becomes false again after sendMessage set it.
C6_TurnReturnsToIdle == loading ~> ~loading

\* C6 witness: a turn whose reply raised while it was processed has ended
C6_Witness ==
    /\ op = "chat.replyRaised"
    /\ ~loading
    /\ turns = <<>>

\* C7: when the chat call fails, exactly one error message with the retry text is
\* appended to the log, nothing else is appended or changed for the turn, and the
\* turn ends.
C7_ChatFailureAppendsOneError ==
    [][op' = "chat.failed" =>
        /\ messages' = Append(messages,
              [role |-> "error",
               content |-> Str(<<"Failed to get response. Please try again.">>)])
        /\ openWidgetUri' = openWidgetUri
        /\ ~loading'
        /\ turns' = <<>>]_vars

\* C7 witness: a failed chat call left the error message behind the user message
C7_Witness ==
    /\ op = "chat.failed"
    /\ Len(messages) >= 2
    /\ messages[Len(messages)].role = "error"
    /\ messages[Len(messages) - 1].role = "user"

\* the messages the reply applied by the last step has appended
AppendedPositions == (reply.base + 1)..Len(messages)

\* an assistant entry whose content is truthy: the entries that set the pointer
SetsPointer(e) == ~e.isNull /\ e.role = "assistant" /\ ~Falsy(e.content)

\* no entry after the k-th of the applied reply sets the pointer
LastToSetPointer(k) ==
    \A n \in DOMAIN reply.data : n > k => ~SetsPointer(reply.data[n])

\* what C8 says of the k-th entry of the applied reply
WidgetEntryOpensWidget(k) ==
    LET e == reply.data[k] IN
    (SetsPointer(e) /\ e.content.kind = "json" /\ e.content.uri # "") =>
        /\ \E j \in AppendedPositions :
              /\ messages[j].role = "widget"
              /\ messages[j].content.kind = "WidgetRenderer"
              /\ messages[j].content.uri = e.content.uri
              /\ messages[j].content.parameters = e.content.parameters
              /\ e.content.text # EmptyString =>
                    /\ j + 1 \in AppendedPositions
                    /\ messages[j + 1] =
                           [role |-> "assistant", content |-> Str(e.content.text)]
        /\ LastToSetPointer(k) => openWidgetUri = e.content.uri

\* the applied reply holds no null entry
NoNullEntry == \A n \in DOMAIN reply.data : ~reply.data[n].isNull

C9_TextEntryAppendsDecodedText ==
    reply.applied =>
        \A k \in DOMAIN reply.data :
            LET e == reply.data[k] IN
            (SetsPointer(e) /\ e.content.kind = "json" /\ e.content.uri = "") =>
                /\ \E j \in AppendedPositions :
                      messages[j] = [role |-> "assistant", content |-> Str(e.content.text)]
                /\ LastToSetPointer(k) => openWidgetUri = Null

\* what C10 says of the k-th entry of the applied reply
RawEntryShownAsText(k) ==
    LET e == reply.data[k] IN
    (SetsPointer(e) /\ JSONParseThrows(e.content)) =>
        /\ \E j \in AppendedPositions :
              messages[j] = [role |-> "assistant", content |-> e.content]
        /\ \A j \in AppendedPositions : messages[j].role # "error"
        /\ LastToSetPointer(k) => openWidgetUri = Null
        /\ turns = <<>>

-----------------------------------------------------------------------------
(* Message log and visualization controls *)

\* the elements of a sequence
Range(q) == {q[i] : i \in DOMAIN q}

\* a is a prefix of b
IsPrefix(a, b) == Len(a) <= Len(b) /\ SubSeq(b, 1, Len(a)) = a

\* b is a without its i-th element
IsWithout(a, b, i) ==
    /\ Len(b) = Len(a) - 1
    /\ \A j \in 1..(i - 1) : b[j] = a[j]
    /\ \A j \in i..Len(b) : b[j] = a[j + 1]

\* C15 as stated: the log is append-only: for every operation (submission, applied
\* reply, chat failure, picker, removal of a widget, visualization control) the
\* log before it is a prefix of the log after it.
C15_Original_LogAppendOnly ==
    [][IsPrefix(messages, messages')]_vars

\* C15 as amended: for every operation but the removal of a widget the log before
\* it is a prefix of the log after it; the removal deletes the last widget message
\* and nothing else, and keeps the order of the others.
C15_LogAppendOnlyButRemoval ==
    [][IF op' = "handleRemoveWidget"
       THEN \E i \in DOMAIN messages :
               /\ messages[i].role = "widget"
               /\ \A j \in (i + 1)..Len(messages) : messages[j].role # "widget"
               /\ IsWithout(messages, messages', i)
       ELSE IsPrefix(messages, messages')]_vars

\* C15 witness: a widget message was removed from between two messages that stay
C15_Witness ==
    /\ op = "handleRemoveWidget"
    /\ Len(messages) = 2
    /\ messages[1].role = "widget"
    /\ messages[2].role = "user"
    /\ fullscreenWidgets[1] = "true"

\* C17: the shrink and full-screen controls act on a widget message only if the
\* widget it resolves to declares the visualization "both", and using one changes
\* the entry of that position in fullscreenWidgets and nothing else: not the log,
\* the pointer, the in-flight flag or the entry of another position.
C17_ControlsOnlyForBoth ==
    [][fullscreenWidgets' # fullscreenWidgets =>
          /\ \E idx \in DOMAIN messages :
                /\ messages[idx].role = "widget"
                /\ getWidget(messages[idx].content.uri).visualization = "both"
                /\ \A j \in DOMAIN fullscreenWidgets :
                      j # idx => fullscreenWidgets'[j] = fullscreenWidgets[j]
          /\ UNCHANGED <<messages, openWidgetUri, loading, turns, input, sessionId,
                         registry>>]_vars

\* C17 witness: the log holds a widget declared "small" and a widget declared
\* "both" that is shown full screen, while a turn is in flight
C17_Witness ==
    /\ loading
    /\ \E i, j \in DOMAIN messages :
          /\ messages[i].role = "widget"
          /\ getWidget(messages[i].content.uri).visualization = "small"
          /\ messages[j].role = "widget"
          /\ fullscreenWidgets[j] = "true"

\* the tool entries of the applied reply, and the tool messages it appended
ToolEntries == SelectSeq(reply.data, LAMBDA e : ~e.isNull /\ e.role = "tool")
AppendedToolMessages ==
    SelectSeq(SubSeq(messages, reply.base + 1, Len(messages)),
              LAMBDA m : m.role = "tool")

\* the message m shows the result of the tool entry e, decoded or as it came
ShowsResult(m, e) ==
    /\ m.role = "tool"
    /\ m.content.kind = "ToolOutput"
    /\ m.content.tool = e.tool
    /\ m.content.text = e.result.text

\* C20: every tool entry of the reply produces one tool message, in the order of
\* the reply, whatever its result string (JSON, no JSON, or empty); a result that
\* does not decode is shown as it came, appends no error message and does not
\* keep the rest of the reply from being applied.
C20_ToolEntryAppendsOneToolMessage ==
    reply.applied =>
        /\ Len(AppendedToolMessages) = Len(ToolEntries)
        /\ \A n \in DOMAIN ToolEntries :
              n \in DOMAIN AppendedToolMessages
                  => ShowsResult(AppendedToolMessages[n], ToolEntries[n])
        /\ (reply.data # <<>> /\ reply.data[1] \in Range(ToolEntries))
              => ShowsResult(messages[reply.base + 1], reply.data[1])
        /\ (reply.data # <<>> /\ reply.data[Len(reply.data)] \in Range(ToolEntries))
              => ShowsResult(messages[Len(messages)], reply.data[Len(reply.data)])
        /\ (\E n \in DOMAIN ToolEntries : JSONParseThrows(ToolEntries[n].result)
                                           /\ ~Falsy(ToolEntries[n].result))
              => \A j \in AppendedPositions : messages[j].role # "error"

-----------------------------------------------------------------------------
(* Registry *)

\* C13: for every identifier string that was never a key of a mapping passed to
\* registerWidgets, getWidget returns undefined; this for all strings, URIs or not.
C13_NeverRegisteredIsAbsent ==
    (op = "getWidget" /\ seen.id \notin seen.keys) => ~seen.found.defined

\* C16: registerWidgets(E) is an additive merge: afterwards getWidget(id) returns
\* E[id] for every id of E, returns what it returned before for every other id,
\* and no identifier that resolved before fails to resolve.
C16_RegisterIsAdditiveMerge ==
    [][op' = "registerWidgets" =>
          \A id \in Ids :
              /\ id \in DOMAIN seen'.entries =>
                     Lookup(registry', id) = seen'.entries[id]
              /\ id \notin DOMAIN seen'.entries =>
                     Lookup(registry', id) = Lookup(registry, id)
              /\ Lookup(registry, id).defined => Lookup(registry', id).defined]_vars

\* C16 witness: a registration replaced the component of an identifier registered
\* before and the table holds other identifiers the call did not name
C16_Witness ==
    /\ op = "registerWidgets"
    /\ \E id \in DOMAIN seen.entries :
          id \in DOMAIN seen.before /\ seen.before[id] # seen.entries[id]
    /\ \E id \in DOMAIN seen.before : id \notin DOMAIN seen.entries

\* C33: registerWidgets is idempotent, and independent of the order for
\* mappings that share no identifier: registering a mapping twice leaves the
\* table as after registering it once, registering E1 then E2 gives the table of
\* E2 then E1 if they share no identifier, and if they share one the component of
\* the later registration is the one resolved.
C33_RegisterIdempotentAndCommutes ==
    [][op' = "registerWidgets" =>
          LET E1 == seen'.entries IN
          /\ registerWidgets(registry', E1) = registry'
          /\ \A E2 \in EntryMaps :
                /\ DOMAIN E1 \cap DOMAIN E2 = {} =>
                       registerWidgets(registry', E2)
                           = registerWidgets(registerWidgets(registry, E2), E1)
                /\ \A id \in DOMAIN E1 \cap DOMAIN E2 :
                       Lookup(registerWidgets(registry', E2), id) = E2[id]
          /\ \A id \in DOMAIN E1 \cap DOMAIN seen.entries :
                Lookup(registry', id) = E1[id]]_vars

\* C33 witness: a mapping was registered that gives an identifier of the table
\* another component, into a table that holds further identifiers
C33_Witness ==
    /\ op = "registerWidgets"
    /\ seen.before # EmptyRegistry
    /\ \E id \in DOMAIN seen.entries :
          /\ id \in DOMAIN seen.before
          /\ seen.before[id] # seen.entries[id]
          /\ registry[id] = seen.entries[id]
    /\ Cardinality(DOMAIN registry) > Cardinality(DOMAIN seen.entries) + 1

-----------------------------------------------------------------------------
(* WidgetRenderer *)

\* C11: the init hook of the widget is invoked once for each maximal run of
\* renders with one identifier (once on mount, once after each change of the uri
\* prop), and a call of the parameter setter invokes it no further time.
C11_InitOncePerIdentifierRun ==
    /\ [](seen.inits = seen.runs)
    /\ [][op' = "setParams" => seen'.inits = seen.inits]_vars

\* C11 witness: the widget called the setter after its init hook had run on mount
\* and again after a change of the uri prop
C11_Witness ==
    /\ op = "setParams"
    /\ renderer.mounted
    /\ seen.inits = 2
    /\ seen.renders = 3

\* the names of the pairs of a list
Names(l) == {l[i].name : i \in DOMAIN l}

\* the value of the last pair of l with the name n
LastValue(l, n) ==
    LET I == {i \in DOMAIN l : l[i].name = n}
    IN  l[CHOOSE i \in I : \A j \in I : j <= i].value

\* C12: for every list of pairs, lists that repeat a name included, the mapping
\* the renderer makes of it has one entry for each name of the list and no other,
\* and the value of the entry is the value of the last pair with that name.
C12_NormalizationLastWins ==
    (op = "mount" /\ renderer.mounted /\ renderer.parameters.defined) =>
        LET l == renderer.parameters.list
            m == renderer.params.map
        IN  /\ renderer.params.defined
            /\ {e[1] : e \in m} = Names(l)
            /\ Cardinality(m) = Cardinality(Names(l))
            /\ \A e \in m : e[2] = LastValue(l, e[1])

\* C12 witness: a renderer was mounted with a list in which a name is repeated
\* with another value
C12_Witness ==
    /\ op = "mount"
    /\ renderer.mounted
    /\ \E i, j \in DOMAIN renderer.parameters.list :
          /\ i < j
          /\ renderer.parameters.list[i].name = renderer.parameters.list[j].name
          /\ renderer.parameters.list[i].value # renderer.parameters.list[j].value

\* the lists that are l in another order
Reorderings(l) ==
    {[i \in DOMAIN l |-> l[f[i]]] : f \in Permutations(DOMAIN l)}

\* C22: the normalisation is lossless and independent of the order: for every
\* list of pairs with pairwise distinct names the mapping holds exactly the
\* (name, value) pairs of the list, and every permutation of the list gives the
\* same mapping.
C22_NormalizationLosslessAnyOrder ==
    (op = "mount" /\ renderer.mounted /\ renderer.parameters.defined
        /\ Cardinality(Names(renderer.parameters.list))
               = Len(renderer.parameters.list)) =>
        LET l == renderer.parameters.list IN
        /\ renderer.params = Mapping({<<l[i].name, l[i].value>> : i \in DOMAIN l})
        /\ \A l2 \in Reorderings(l) : ParamObj(ParameterList(l2)) = renderer.params

\* C22 witness: a renderer was mounted with a list of two pairs of distinct names
C22_Witness ==
    /\ op = "mount"
    /\ renderer.mounted
    /\ Len(renderer.parameters.list) = 2
    /\ Cardinality(Names(renderer.parameters.list)) = 2
    /\ Cardinality(renderer.params.map) = 2

\* C14: a render with an identifier that does not resolve in the registry returns
\* the placeholder naming the identifier, invokes no init hook and does not raise,
\* whatever the parameters.
C14_UnknownWidgetPlaceholder ==
    [][(op' \in {"mount", "rerender"} /\ ~getWidget(renderer'.output.uri).defined) =>
          /\ renderer'.output = UnknownWidget(renderer'.output.uri)
          /\ seen'.inits = seen.inits]_vars

\* C18: at every render the mapping handed to the widget is the most recent of
\* the normalisation of the parameters the caller supplied last and the mapping
\* passed last to the setter, also after the caller rendered the same renderer
\* with another parameters list or another identifier.
C18_WidgetGetsCurrentParameters ==
    (renderer.mounted /\ renderer.output.kind = "widget") =>
        renderer.output.parameters = renderer.expected

\* C19: with no parameters list the init hook and the rendered widget receive an
\* empty mapping, not an absent value.
C19_AbsentParametersGiveEmptyMapping ==
    (op = "mount" /\ renderer.mounted /\ ~renderer.parameters.defined
        /\ renderer.output.kind = "widget") =>
        /\ renderer.output.parameters = Mapping({})
        /\ renderer.setParams => renderer.initArg = Mapping({})

-----------------------------------------------------------------------------
(* Turns *)

\* the values of op after a submission that was accepted
Submissions ==
    {"sendMessage.contextRaised", "sendMessage.contextUndefined",
     "sendMessage.contextEmptyString", "sendMessage.contextString",
     "sendMessage.contextEmptyObject", "sendMessage.contextObject"}

\* C21: a turn issues a context-injection request if and only if the pointer is
\* set at submission, the widget it names resolves and its export hook returns a
\* non-empty string or an object with at least one key; in every other case no
\* injection request is issued and the chat call is made.
C21_InjectionIffContextNonEmpty ==
    op \in Submissions =>
        LET t == turns[Len(turns)] IN
        /\ t.injection = "pending" <=>
              /\ openWidgetUri # Null
              /\ getWidget(openWidgetUri).defined
              /\ op \in {"sendMessage.contextString", "sendMessage.contextObject"}
        /\ t.injection # "pending" => t.chat = "pending"

\* C21 witness: with a registered widget open whose hook returned an empty
\* object, the turn went to the chat call and issued no injection
C21_Witness ==
    /\ op = "sendMessage.contextEmptyObject"
    /\ getWidget(openWidgetUri).defined
    /\ turns[Len(turns)].injection = "none"
    /\ turns[Len(turns)].chat = "pending"

\* C23: opening a registered widget from the picker appends one widget message
\* for that identifier and sets the pointer to it, makes no backend call and
\* leaves the in-flight flag; for an identifier that does not resolve the log and
\* the pointer stay as they are.
C23_PickerOpenAppendsOneWidget ==
    [][/\ op' = "handleAddWidget" =>
            /\ \E u \in Uris :
                  /\ getWidget(u).defined
                  /\ messages' = Append(messages,
                         [role |-> "widget",
                          content |-> WidgetRendererElement(u, NoParameters)])
                  /\ openWidgetUri' = u
            /\ UNCHANGED <<turns, loading>>
       /\ op' = "handleAddWidget.return" =>
            UNCHANGED <<messages, openWidgetUri, turns, loading>>]_vars

\* C23 witness: the picker opened a widget while a turn was in flight and another
\* widget was open
C23_Witness ==
    /\ op = "handleAddWidget"
    /\ loading
    /\ turns # <<>>
    /\ Cardinality(WidgetPositions) = 2
    /\ openWidgetUri = messages[Len(messages)].content.uri

\* the reply of one assistant entry {uri: u, parameters: [], text: ""}
OpenByAgent(u) == <<AssistantEntry(Json(u, ParameterList(<<>>), <<>>))>>

\* C24: opening by the picker and opening by the agent are equivalent: from one
\* state, opening u through the picker and applying the reply of the one entry
\* {uri: u, parameters: [], text: ""} give the same log, the same pointer and the
\* same mapping handed to the widget, for every u the agent can send.
C24_PickerAndAgentOpenAlike ==
    [][\A u \in Uris :
          (reply'.applied /\ reply'.data = OpenByAgent(u)) =>
              IF getWidget(u).defined
              THEN /\ messages' = Append(messages,
                          [role |-> "widget",
                           content |-> WidgetRendererElement(u, NoParameters)])
                   /\ openWidgetUri' = u
                   /\ ParamObj(ParameterList(<<>>)) = ParamObj(NoParameters)
              ELSE /\ messages' = messages
                   /\ openWidgetUri' = openWidgetUri]_vars

\* C26: if the start-session request fails (network error, status not OK,
\* session_id missing or blank) the session id stays 'default', no message is
\* appended to the log, and the turns that follow use that id.
C26_SessionStartFailureKeepsDefault ==
    /\ [][op' = "startSession.failed" =>
             sessionId' = "default" /\ messages' = messages]_vars
    /\ []((startSession = "settled" /\ sessionId = "default") =>
             \A i \in DOMAIN turns :
                 /\ turns[i].sessionId = "default"
                 /\ turns[i].chat = "pending" =>
                        turns[i].chatBody.session_id = "default")

\* C26 witness: after the session start had failed a turn was submitted and its
\* chat request, carrying 'default', was answered
C26_Witness ==
    /\ startSession = "settled"
    /\ sessionId = "default"
    /\ op = "chat.reply"
    /\ ~loading
    /\ Len(messages) >= 2

\* the messages of the entries of data, entry by entry
RECURSIVE EntryWise(_)
EntryWise(data) ==
    IF data = <<>> THEN <<>>
    ELSE EntryMessages(Head(data), Null).msgs \o EntryWise(Tail(data))

\* C27: the user message of a turn is in the log before a backend call of the
\* turn is issued; messages of a reply are appended only when the chat call has
\* returned; and in the log that results they stand after the user message of the
\* turn, together and in the order of the entries of the reply, also when the
\* picker or the remove control was used while the turn was in flight.
C27_ReplyAfterUserMessageInOrder ==
    /\ [](\A i \in DOMAIN turns :
             \E j \in DOMAIN messages :
                 messages[j] = [role |-> "user", content |-> Str(turns[i].userMessage)])
    /\ [][(\E j \in (Len(messages) + 1)..Len(messages') :
              messages'[j].role \in {"tool", "assistant"})
          => (op' = "chat.reply" /\ turns # <<>> /\ turns[1].chat = "pending")]_vars
    /\ [](op = "chat.reply" =>
             /\ SubSeq(messages, reply.base + 1, Len(messages)) = EntryWise(reply.data)
             /\ LastUserPosition \in 1..reply.base)

\* C27 witness: the picker opened a widget while the turn was in flight, and the
\* message of the reply stands after it
C27_Witness ==
    /\ op = "chat.reply"
    /\ Len(messages) = 3
    /\ messages[1].role = "user"
    /\ messages[2].role = "widget"
    /\ messages[2].content.parameters = NoParameters
    /\ messages[3].role = "tool"
    /\ reply.base = 2

\* C28: the remove control of the widget message at position i removes the
\* message at i and no other, and the others keep their order, for every widget
\* message and not for the last one only.  (The control of every widget message
\* calls handleRemoveWidget(), which takes no position.)
C28_RemoveControlRemovesItsMessage ==
    [][op' = "handleRemoveWidget" =>
          \A i \in WidgetPositions : IsWithout(messages, messages', i)]_vars

\* C29: a widget message is shown full screen only if the full-screen control was
\* used on it since it was appended: a widget message that is appended starts
\* out not full screen, after any opens, toggles and removals.
C29_NewWidgetStartsNotFullscreen ==
    [][\A j \in (Len(messages) + 1)..Len(messages') :
          messages'[j].role = "widget" => fullscreenWidgets'[j] # "true"]_vars

\* C30: all context-injection and chat requests of one page session carry one
\* session id, however the start-session response interleaves with the
\* submissions, a submission before the response included.
C30_OneSessionIdPerPageSession ==
    /\ Cardinality(seen.requests) <= 1
    /\ \A i \in DOMAIN turns :
           /\ turns[i].sessionId \in seen.requests
           /\ turns[i].chat = "pending" => turns[i].chatBody.session_id \in seen.requests

\* C31: within one turn the context-injection request and the chat request
\* carry one session id, and the context injected is the one exported by the
\* widget the pointer named at submission, also if the pointer or the session id
\* changes (picker open, remove, start-session response) while the turn is in
\* flight.
C31_TurnKeepsSessionIdAndContext ==
    /\ [](\A i \in DOMAIN turns :
             turns[i].injection \in {"pending", "resolved", "rejected"} =>
                 /\ turns[i].injectionBody.content = turns[i].context
                 /\ turns[i].chat = "pending" =>
                        turns[i].chatBody.session_id = turns[i].injectionBody.session_id)
    /\ [][(op' \in {"sendMessage.contextString", "sendMessage.contextObject"}) =>
              LET t == turns'[Len(turns')] IN
              /\ t.contextOf = openWidgetUri
              /\ t.injectionBody.session_id = sessionId]_vars
    /\ [][\A i \in DOMAIN turns :
              (Len(turns') = Len(turns) /\ turns[i].injection = "pending") =>
                  /\ turns'[i].contextOf = turns[i].contextOf
                  /\ turns'[i].injectionBody = turns[i].injectionBody]_vars

\* C31 witness: the injection of a turn was answered and its chat request is
\* out, after the pointer and the session id had both changed during the await
C31_Witness ==
    /\ turns # <<>>
    /\ turns[1].injection = "resolved"
    /\ turns[1].chat = "pending"
    /\ turns[1].contextOf # openWidgetUri
    /\ turns[1].sessionId # sessionId

\* C32: a turn that ends by appending the error message has no other effect: the
\* pointer is what it was without the turn, and no widget, tool or assistant
\* message of the reply is in the log, also when the failure is raised while the
\* entries of the reply are processed.
C32_FailedTurnOnlyAppendsError ==
    [][op' \in {"chat.failed", "chat.replyRaised"} =>
          /\ messages' = Append(messages, ErrorMessage)
          /\ openWidgetUri' = openWidgetUri]_vars

-----------------------------------------------------------------------------
(* Picker *)

\* C25: the picker lists one entry for every widget in the registry, with the
\* name the widget declares (else the identifier) and its description (else the
\* empty string); a widget whose icon producer raises or is absent is listed with
\* the placeholder glyph, and the icon of one widget takes no other widget off
\* the list.
C25_PickerListsEveryRegisteredWidget ==
    op = "widgetMenu" =>
        \A uri \in DOMAIN registry :
            /\ uri \in DOMAIN seen.menu
            /\ seen.menu[uri].name =
                   IF registry[uri].widgetName # "" THEN registry[uri].widgetName
                   ELSE uri
            /\ seen.menu[uri].description = registry[uri].description
            /\ (~registry[uri].getIcon \/ uri \in seen.raised)
                   => seen.menu[uri].icon = PlaceholderGlyph

-----------------------------------------------------------------------------
(* Widgets of the chat example *)

\* C34: the context exported for the open calendar depends only on what was done
\* in the calendar instance that is open: a calendar opened (without an initial
\* date) exports nothing until a day is selected in it, also after a calendar
\* with a selected day was removed, and selecting a day in an older calendar
\* still in the log does not change the context exported.
C34_CalendarContextOfOpenInstance ==
    [][/\ op' = "calendar.open" =>
            getWidgetContext(calendar'.lastSelectedDay, calendar'.lastSelectedMonth)
                = NoContext
       /\ op' = "handleDayClick.older" =>
            getWidgetContext(calendar'.lastSelectedDay, calendar'.lastSelectedMonth)
                = getWidgetContext(calendar.lastSelectedDay, calendar.lastSelectedMonth)]_vars

\* C35: in the QR scanner the camera stream is held only while the scan state is
\* 'scanning': in every state with scan state 'idle', 'scanned' or 'error', and
\* after the unmount, no media stream is live, however the acquisition of the
\* camera in startScan interleaves with Cancel and with the unmount.
C35_StreamOnlyWhileScanning ==
    (~scanner.mounted \/ scanner.scanState \in {"idle", "scanned", "error"})
        => scanner.tracks = {}

\* C36: a widget opened without the parameter it requires always gets its init
\* prompt: when the image carousel is initialized without ids, or the stock
\* visualizer without sku, its modal is presented, also when the prompt of
\* another widget is on screen, and confirming it delivers the value entered to
\* that instance through the parameter setter.
C36_MissingParameterAlwaysPrompts ==
    [][/\ op' = "initWidget.missing" =>
            prompts'.overlay = Len(prompts'.instances)
       /\ op' = "prompt.confirm" =>
            prompts'.instances[prompts.overlay].params = "entered"]_vars

====
